---- MODULE Spec2Model ----
(***************************************************************************)
(* Model of the slang FFI demo harness: src/ffi/slang.c (main) and the     *)
(* boundary layout of src/ffi/slang.h (SlangInt8, SlangString,             *)
(* SlangParseLangResult, SlangParseLang).                                  *)
(*                                                                         *)
(* Text is modelled as sequences of one-character strings; a C string in   *)
(* memory is such a sequence followed by the terminator NUL.  Pointers are *)
(* records naming the region they point into.  SlangParseLang is external: *)
(* it is modelled by its declaration, returning any signed 8-bit errcode   *)
(* and either a null tabstr or a freshly allocated C string.               *)
(***************************************************************************)
EXTENDS Integers, Sequences, FiniteSets

\* ------------------------------------------------------------------ bounds
MaxArgc == 3
MaxLen == 2
MaxTabLen == 2

\* ------------------------------------------------------- characters, text
NUL == "NUL"
NL == "\n"

ArgAlphabet == {"e", "n"}
TabAlphabet == {"O", "K"}

RECURSIVE StringsUpTo(_, _)
StringsUpTo(alphabet, n) ==
    IF n = 0 THEN {<<>>}
    ELSE LET shorter == StringsUpTo(alphabet, n - 1)
         IN  shorter \cup {Append(s, c) : s \in shorter, c \in alphabet}

\* The command-line arguments the environment can pass (terminator-free).
ArgStrings == StringsUpTo(ArgAlphabet, MaxLen)
\* The strings the callee can return in tabstr.
TabStrings == StringsUpTo(TabAlphabet, MaxTabLen)
\* The names the program can be invoked under.
ProgNames == {<<"s", "l", "a", "n", "g">>, <<"a", ".", "o", "u", "t">>}

\* A C string as it lies in memory: its bytes, then the terminator.
CString(s) == Append(s, NUL)

\* ----------------------------------------------------------------- pointers
NULL == [region |-> "null", idx |-> 0]
ArgvPtr(i) == [region |-> "argv", idx |-> i]
HeapPtr == [region |-> "heap", idx |-> 0]

\* ------------------------------------------------------ slang.h: SlangInt8
\* typedef signed char SlangInt8: the range of the type, its 8-bit object
\* representation, and the value read back from that representation.
SlangInt8Range == -128 .. 127

Int8Bits(e) == e % 256

SlangInt8Unsigned(bits) == bits

SlangInt8(bits) == IF bits >= 128 THEN bits - 256 ELSE bits

\* --------------------------------------------------- slang.h: SlangString.n
\* ptrdiff_t n: a size_t stored into the signed pointer-sized field
\* (pointer width of an ILP32 build; values above PTRDIFF_MAX wrap).
PTRDIFF_MAX == 2147483647

SizeToPtrdiff(u) ==
    IF u <= PTRDIFF_MAX THEN u ELSE ((u - PTRDIFF_MAX) - 1) - PTRDIFF_MAX - 1

\* ------------------------------------------------------------------ strlen
RECURSIVE StrlenWithTerminator(_)
StrlenWithTerminator(mem) ==
    IF Head(mem) = NUL THEN 1 ELSE 1 + StrlenWithTerminator(Tail(mem))

\* strlen: the number of bytes before the first terminator.
RECURSIVE Strlen(_)
Strlen(mem) == IF Head(mem) = NUL THEN 0 ELSE 1 + Strlen(Tail(mem))

\* ------------------------------------------------------------------ printf
DigitChars == <<"0", "1", "2", "3", "4", "5", "6", "7", "8", "9">>

RECURSIVE Digits(_)
Digits(n) ==
    IF n < 10 THEN <<DigitChars[n + 1]>>
    ELSE Digits(n \div 10) \o <<DigitChars[(n % 10) + 1]>>

\* %d: base-10, a minus sign for negative values.
FormatD(v) == IF v < 0 THEN <<"-">> \o Digits(0 - v) ELSE Digits(v)

\* %s on a readable C string: the bytes up to the terminator.
RECURSIVE FormatS(_)
FormatS(mem) ==
    IF Head(mem) = NUL THEN <<>> ELSE <<Head(mem)>> \o FormatS(Tail(mem))

\* What libc writes for %s given a null pointer, where it writes anything.
NullText == <<"(", "n", "u", "l", "l", ")">>

\* The formatted-output interpreter.  args holds, per directive, an int for
\* %d or, for %s, a record telling whether the pointer is null and the
\* memory it refers to; onNull chooses the library's reaction to a null %s
\* pointer: "text" writes NullText, "stop" stops formatting there (the
\* fault).
RECURSIVE Printf(_, _, _)
Printf(fmt, args, onNull) ==
    IF fmt = <<>> THEN <<>>
    ELSE IF Head(fmt) = "%" THEN
        LET conv == fmt[2]
            rest == Tail(Tail(fmt))
        IN  IF conv = "d"
            THEN FormatD(Head(args)) \o Printf(rest, Tail(args), onNull)
            ELSE IF Head(args).null
                 THEN IF onNull = "stop" THEN <<>>
                      ELSE NullText \o Printf(rest, Tail(args), onNull)
                 ELSE FormatS(Head(args).mem) \o Printf(rest, Tail(args), onNull)
    ELSE <<Head(fmt)>> \o Printf(Tail(fmt), args, onNull)

\* ------------------------------------------------------- slang.c constants
UsageFormatNoName ==
    <<"U", "s", "a", "g", "e", ":", " ", "<", "l", "a", "n", "g", "-",
      "c", "o", "d", "e", ">", NL>>

\* "Usage: %s <lang-code>\n"
UsageFormat ==
    <<"U", "s", "a", "g", "e", ":", " ", "%", "s", " ", "<", "l", "a", "n",
      "g", "-", "c", "o", "d", "e", ">", NL>>

\* "SlangParseLang('%s'): code = %d\n%s\n"
ResultFormat ==
    <<"S", "l", "a", "n", "g", "P", "a", "r", "s", "e", "L", "a", "n", "g",
      "(", "'", "%", "s", "'", ")", ":", " ", "c", "o", "d", "e", " ", "=",
      " ", "%", "d", NL, "%", "s", NL>>

NeedsUsageOffByOne(n) == n <= 2

\* if (argc < 2)
NeedsUsage(n) == n < 2

LangCodeArgLast(n) == n - 1

\* argv[1]: the index of the argument main wraps and prints.
LangCodeArg(n) == 1

ReleaseCallsTwice(p) == IF p = NULL THEN 0 ELSE 2

\* The number of times main hands result.tabstr to a deallocator between
\* the printf and the return: there is no such call.
ReleaseCalls(p) == 0

\* Exit status of a process killed by the invalid read (128 + SIGSEGV).
FaultStatus == 128 + 11

\* ------------------------------------------------------------------- state
VARIABLES
    pc,           \* position in main: "start", "measured", "wrapped",
                  \* "returned", "printed", "exited", "crashed"
    argc,
    argv,         \* argv[0 .. argc-1], each a C string in memory
    langCodeLen,  \* size_t langCodeLen
    langCode,     \* SlangString langCode = {p, n}
    result,       \* struct SlangParseLangResult = {errcode (8 bits), tabstr}
    heap,         \* the buffer the callee allocated for tabstr, if any
    out,          \* standard output
    exitCode,     \* process exit status, -1 while running
    calls,        \* number of invocations of SlangParseLang
    callArg,      \* the SlangString the callee received
    retcode,      \* the errcode value the callee returned
    released,     \* number of releases of the returned payload
    argvRead,     \* indices of argv whose bytes main has read
    nullRead      \* a null tabstr was read as a string

vars == <<pc, argc, argv, langCodeLen, langCode, result, heap, out, exitCode,
          calls, callArg, retcode, released, argvRead, nullRead>>

\* What a pointer refers to.
Load(p) == IF p.region = "argv" THEN argv[p.idx] ELSE heap

\* A char* passed to printf for %s.
StrArg(p) == [null |-> p = NULL, mem |-> IF p = NULL THEN <<>> ELSE Load(p)]

\* The state at entry to main.  The hosted environment passes the invocation
\* name, so argc >= 1; the arguments are terminator-free C strings.  The
\* locals of main hold placeholders until the statements that define them.
Init ==
    /\ pc = "start"
    /\ argc \in 1 .. MaxArgc
    /\ \E name \in ProgNames :
         \E rest \in [1 .. (argc - 1) -> ArgStrings] :
           argv = [i \in 0 .. (argc - 1) |->
                     IF i = 0 THEN CString(name) ELSE CString(rest[i])]
    /\ langCodeLen = 0
    /\ langCode = [p |-> NULL, n |-> 0]
    /\ result = [errcode |-> 0, tabstr |-> NULL]
    /\ heap = <<>>
    /\ out = <<>>
    /\ exitCode = -1
    /\ calls = 0
    /\ callArg = [p |-> NULL, n |-> 0]
    /\ retcode = 0
    /\ released = 0
    /\ argvRead = {}
    /\ nullRead = FALSE

\* slang.c 7-10: print the usage line and return 0.
Usage ==
    /\ pc = "start"
    /\ NeedsUsage(argc)
    /\ out' = out \o Printf(UsageFormat, <<StrArg(ArgvPtr(0))>>, "text")
    /\ argvRead' = argvRead \cup {0}
    /\ exitCode' = 0
    /\ pc' = "exited"
    /\ UNCHANGED <<argc, argv, langCodeLen, langCode, result, heap, calls,
                   callArg, retcode, released, nullRead>>

\* slang.c 12: size_t langCodeLen = strlen(argv[1]);
Measure ==
    /\ pc = "start"
    /\ ~NeedsUsage(argc)
    /\ langCodeLen' = Strlen(Load(ArgvPtr(LangCodeArg(argc))))
    /\ argvRead' = argvRead \cup {LangCodeArg(argc)}
    /\ pc' = "measured"
    /\ UNCHANGED <<argc, argv, langCode, result, heap, out, exitCode, calls,
                   callArg, retcode, released, nullRead>>

\* slang.c 14: SlangString langCode = {argv[1], langCodeLen};
Wrap ==
    /\ pc = "measured"
    /\ langCode' = [p |-> ArgvPtr(LangCodeArg(argc)),
                    n |-> SizeToPtrdiff(langCodeLen)]
    /\ pc' = "wrapped"
    /\ UNCHANGED <<argc, argv, langCodeLen, result, heap, out, exitCode,
                   calls, callArg, retcode, released, argvRead, nullRead>>

\* slang.c 15: struct SlangParseLangResult result = SlangParseLang(langCode);
\* The callee returns any errcode with no payload ...
CallNoPayload ==
    /\ pc = "wrapped"
    /\ calls' = calls + 1
    /\ callArg' = langCode
    /\ \E e \in SlangInt8Range :
         /\ retcode' = e
         /\ result' = [errcode |-> Int8Bits(e), tabstr |-> NULL]
    /\ pc' = "returned"
    /\ UNCHANGED <<argc, argv, langCodeLen, langCode, heap, out, exitCode,
                   released, argvRead, nullRead>>

\* ... or any errcode with a heap string whose ownership passes to main.
CallPayload ==
    /\ pc = "wrapped"
    /\ calls' = calls + 1
    /\ callArg' = langCode
    /\ \E e \in SlangInt8Range, t \in TabStrings :
         /\ retcode' = e
         /\ result' = [errcode |-> Int8Bits(e), tabstr |-> HeapPtr]
         /\ heap' = CString(t)
    /\ pc' = "returned"
    /\ UNCHANGED <<argc, argv, langCodeLen, langCode, out, exitCode,
                   released, argvRead, nullRead>>

\* The arguments of the printf of slang.c 17.
ResultArgs ==
    <<StrArg(ArgvPtr(LangCodeArg(argc))),
      SlangInt8(result.errcode),
      StrArg(result.tabstr)>>

\* slang.c 17 with a readable tabstr.
PrintResult ==
    /\ pc = "returned"
    /\ result.tabstr # NULL
    /\ out' = out \o Printf(ResultFormat, ResultArgs, "text")
    /\ argvRead' = argvRead \cup {LangCodeArg(argc)}
    /\ pc' = "printed"
    /\ UNCHANGED <<argc, argv, langCodeLen, langCode, result, heap, exitCode,
                   calls, callArg, retcode, released, nullRead>>

\* slang.c 17 with tabstr == NULL: passing a null pointer to %s is
\* undefined.  The library writes its null text ...
PrintNullText ==
    /\ pc = "returned"
    /\ result.tabstr = NULL
    /\ nullRead' = TRUE
    /\ out' = out \o Printf(ResultFormat, ResultArgs, "text")
    /\ argvRead' = argvRead \cup {LangCodeArg(argc)}
    /\ pc' = "printed"
    /\ UNCHANGED <<argc, argv, langCodeLen, langCode, result, heap, exitCode,
                   calls, callArg, retcode, released>>

\* ... or the read faults and the process is killed; what was formatted
\* before the fault is either lost in the stream buffer or already written.
PrintNullFault ==
    /\ pc = "returned"
    /\ result.tabstr = NULL
    /\ nullRead' = TRUE
    /\ \E flushed \in BOOLEAN :
         out' = IF flushed
                THEN out \o Printf(ResultFormat, ResultArgs, "stop")
                ELSE out
    /\ argvRead' = argvRead \cup {LangCodeArg(argc)}
    /\ exitCode' = FaultStatus
    /\ pc' = "crashed"
    /\ UNCHANGED <<argc, argv, langCodeLen, langCode, result, heap, calls,
                   callArg, retcode, released>>

\* slang.c 18: return 0;
Return ==
    /\ pc = "printed"
    /\ released' = released + ReleaseCalls(result.tabstr)
    /\ exitCode' = 0
    /\ pc' = "exited"
    /\ UNCHANGED <<argc, argv, langCodeLen, langCode, result, heap, out,
                   calls, callArg, retcode, argvRead, nullRead>>

Next ==
    \/ Usage
    \/ Measure
    \/ Wrap
    \/ CallNoPayload
    \/ CallPayload
    \/ PrintResult
    \/ PrintNullText
    \/ PrintNullFault
    \/ Return

Spec == Init /\ [][Next]_vars

\* ------------------------------------------------------------- properties
Terminated == pc \in {"exited", "crashed"}

\* The bytes of argument i, without the terminator the environment appends.
Arg(i) == SubSeq(argv[i], 1, Len(argv[i]) - 1)

\* The bytes of the returned payload (none when tabstr is null).
TabBytes ==
    IF result.tabstr = NULL THEN <<>> ELSE SubSeq(heap, 1, Len(heap) - 1)

UsageLine(name) ==
    <<"U", "s", "a", "g", "e", ":", " ">> \o name
        \o <<" ", "<", "l", "a", "n", "g", "-", "c", "o", "d", "e", ">", NL>>

\* SlangParseLang('X'): code = <code text>
CodeLine(x, codeText) ==
    <<"S", "l", "a", "n", "g", "P", "a", "r", "s", "e", "L", "a", "n", "g",
      "(", "'">> \o x
        \o <<"'", ")", ":", " ", "c", "o", "d", "e", " ", "=", " ">>
        \o codeText \o <<NL>>

DigitValue(c) == CHOOSE d \in 0 .. 9 : DigitChars[d + 1] = c

RECURSIVE DecValue(_)
DecValue(digs) ==
    IF digs = <<>> THEN 0
    ELSE 10 * DecValue(SubSeq(digs, 1, Len(digs) - 1))
           + DigitValue(digs[Len(digs)])

\* text is the base-10 signed rendering of v: an optional minus sign exactly
\* when v is negative, then digits without a leading zero, of value |v|.
IsSignedDecimal(text, v) ==
    LET neg  == text # <<>> /\ text[1] = "-"
        digs == IF neg THEN Tail(text) ELSE text
    IN  /\ digs # <<>>
        /\ \A i \in 1 .. Len(digs) : \E d \in 1 .. 10 : DigitChars[d] = digs[i]
        /\ Len(digs) > 1 => digs[1] # "0"
        /\ neg <=> v < 0
        /\ v = IF neg THEN 0 - DecValue(digs) ELSE DecValue(digs)

FirstIndex(text, c, from) ==
    CHOOSE i \in from .. Len(text) :
        text[i] = c /\ \A j \in from .. (i - 1) : text[j] # c

HasCodeLine(text) ==
    \E i \in 1 .. Len(text) : text[i] = "=" /\ \E j \in i .. Len(text) : text[j] = NL

\* The text printed after "code = ", up to the end of that line.
PrintedCode(text) ==
    LET eq == FirstIndex(text, "=", 1)
        nl == FirstIndex(text, NL, eq)
    IN  SubSeq(text, eq + 2, nl - 1)

\* C1: a run with no extra argument (argc < 2) never invokes SlangParseLang,
\* and when it has terminated it has returned with exit code 0 after writing
\* exactly the usage line that contains the invocation name argv[0].
C1_UsageNoCall ==
    argc < 2 =>
        /\ calls = 0
        /\ pc # "crashed"
        /\ pc = "exited" => exitCode = 0 /\ out = UsageLine(Arg(0))

C1_Witness == argc < 2 /\ pc = "exited" /\ out # <<>> /\ argvRead = {0}

\* C2: a run with one argument invokes SlangParseLang exactly once: never
\* more than once in any state, and once by the time the process has
\* terminated, whatever error code the callee returned.
C2_CalledExactlyOnce ==
    argc = 2 =>
        /\ calls <= 1
        /\ Terminated => calls = 1

C2_Witness == argc = 2 /\ pc = "exited" /\ calls = 1 /\ retcode # 0

\* C3: every run that received a non-null payload has released it exactly
\* once by the time the process has terminated.
C3_PayloadReleasedAtExit ==
    (Terminated /\ calls = 1 /\ result.tabstr # NULL) => released = 1

\* C4: the returned payload is never released more than once.
C4_NoDoubleRelease == released <= 1

C4_Witness ==
    pc = "exited" /\ calls = 1 /\ result.tabstr = HeapPtr /\ released <= 1

\* C5: every run that terminates does so with exit code 0, with or without
\* an argument and for every error code the callee returns.
C5_ExitCodeZero == Terminated => exitCode = 0

\* C6: the StringView passed to SlangParseLang has p referring to the
\* argument's bytes and n equal to the argument's byte length L (also for
\* L = 0): the view holds exactly the argument and no terminator.
C6_ViewPreservesLength ==
    calls >= 1 =>
        /\ callArg.p = ArgvPtr(1)
        /\ callArg.n = Len(Arg(1))
        /\ SubSeq(Load(callArg.p), 1, callArg.n) = Arg(1)
        /\ \A i \in 1 .. callArg.n : Load(callArg.p)[i] # NUL

C6_Witness == calls = 1 /\ Arg(1) = <<>> /\ callArg.n = 0

\* C7: whenever the result line has been written, the number printed after
\* "code = " is the base-10 signed rendering of exactly the error code the
\* callee returned (negative codes printed negative).
C7_PrintedCodeIsReturnedCode ==
    (calls >= 1 /\ HasCodeLine(out)) =>
        IsSignedDecimal(PrintedCode(out), retcode)

C7_Witness ==
    /\ pc = "exited"
    /\ retcode = -1
    /\ HasCodeLine(out)
    /\ PrintedCode(out) = <<"-", "1">>

\* C8: for every argument X and every result the callee returns, once the
\* print statement has been passed the output is exactly the line
\* SlangParseLang('X'): code = <errcode> followed by the bytes of tabstr and
\* a newline.
C8_ExactOutput ==
    (calls = 1 /\ pc \in {"printed", "exited", "crashed"}) =>
        out = CodeLine(Arg(1), FormatD(retcode)) \o TabBytes \o <<NL>>

\* C9: the caller never reads a null tabstr as a string.
C9_NoNullRead == ~nullRead

\* The outcomes (output, exit code) a terminated run with argument x may
\* have for the result the callee returned.
OutcomesFor(x) ==
    IF result.tabstr # NULL
    THEN {<<CodeLine(x, FormatD(retcode)) \o TabBytes \o <<NL>>, 0>>}
    ELSE {<<CodeLine(x, FormatD(retcode)) \o NullText \o <<NL>>, 0>>,
          <<CodeLine(x, FormatD(retcode)), FaultStatus>>,
          <<(<<>>), FaultStatus>>}

\* C10: with two or more arguments the harness prints no usage line, reads
\* and wraps only argv[1], invokes SlangParseLang exactly once on it, and
\* its output and exit code are those of the run with argv[1] alone.
C10_ExtraArgsIgnored ==
    argc > 2 =>
        /\ argvRead \subseteq {1}
        /\ calls <= 1
        /\ calls = 1 => callArg = [p |-> ArgvPtr(1), n |-> Len(Arg(1))]
        /\ Terminated => calls = 1 /\ <<out, exitCode>> \in OutcomesFor(Arg(1))

C10_Witness ==
    argc > 2 /\ pc = "exited" /\ calls = 1 /\ Arg(2) # Arg(1) /\ argvRead = {1}

====
